---- MODULE Spec2Model ----
(***************************************************************************)
(* cod-smart-fetch: the request lifecycle of one useSmartFetch instance.   *)
(*                                                                         *)
(* One hook instance under one SmartFetchProvider.  The state is the       *)
(* FetchState held by useState, the two refs (optionsRef and               *)
(* abortControllerRef), the initialOptions and the configuration of the    *)
(* latest render, the debounce timers that are armed, and every execution  *)
(* of execute() with the await it is suspended at.                         *)
(*                                                                         *)
(* Strings are sequences of one-character strings, so that startsWith,     *)
(* endsWith and slice are computed as the code computes them.  A render    *)
(* and the effects it flushes are one step.  A callback (interceptor,      *)
(* onSuccess, onError) is user code: when it is invoked the model chooses  *)
(* whether it returns, throws an Error or throws null.  The variable event *)
(* records what the last step did (the commits it made, the callbacks it   *)
(* invoked, how the promise settled), so that a claim about one execution  *)
(* is a predicate of the state its step leads to.                          *)
(*                                                                         *)
(* abort() rejects the pending fetch (or the pending body read of its      *)
(* response) with an AbortError, and the catch block of the execution that *)
(* awaits it returns null in a microtask, before any other task runs: the  *)
(* step that aborts includes that return.  A request interceptor is taken  *)
(* to hand on the signal it was given; a response interceptor may hand on  *)
(* the response or put another one in its place.                           *)
(*                                                                         *)
(* Spec is the lifecycle: renders, the auto-fetch effect, its timers,      *)
(* executions and their awaits, unmounting.  RequestSpec is the request one*)
(* call builds: execute() and the verbs get, post, put, patch, remove and  *)
(* upload under base URLs, global headers and instance options of every    *)
(* shape.  An option value is a tuple, so that a missing key, an undefined *)
(* one and a value can be told apart.                                      *)
(***************************************************************************)
EXTENDS Integers, Sequences, FiniteSets, TLC

VARIABLES
    mounted,      \* the component that owns the hook is mounted
    config,       \* the value useSmartFetchConfig() returned at the latest render
    initialOptions,  \* initialOptions of the latest render
    optionsRef,   \* optionsRef.current
    state,        \* FetchState: [data, error, isLoading]
    abortControllerRef,  \* .current: 0 is null, e the controller execution e created
    aborted,      \* the controllers on which abort() has been called
    execs,        \* the executions of execute(), in the order they were initiated
    timers,       \* armed setTimeout callbacks, each with the execute closure it will call
    effectTimer,  \* timeoutId captured by the cleanup of the latest auto-fetch effect, 0 if none
    nextTimer,    \* the next timeoutId setTimeout hands out
    renders,      \* re-renders so far
    event         \* what the step that led to this state did

vars == << mounted, config, initialOptions, optionsRef, state, abortControllerRef,
           aborted, execs,
           timers, effectTimer, nextTimer, renders, event >>

(***************************************************************************)
(* Bounds of the model.                                                    *)
(***************************************************************************)
MaxExec == 2
MaxRenders == 2

(***************************************************************************)
(* Values.                                                                 *)
(***************************************************************************)
\* a key that is not in an options object, and a key whose value is undefined
Absent == << "absent" >>
Undef == << "undefined" >>
\* nothing recorded
None == << >>

UrlA == << "/", "a" >>
UrlB == << "b" >>
UrlAbs == << "h", "t", "t", "p", ":", "/", "/", "x" >>
BaseUrl == << "h", "t", "t", "p", ":", "/", "/", "h", "/" >>

\* request bodies: two FormData objects
Form1 == << "FormData", "1" >>
Form2 == << "FormData", "2" >>
IsFormData(b) == Len(b) = 2 /\ b[1] = "FormData"

\* plain request bodies: an object, and the number 0, which is falsy
BodyObj == << "plain", "{x:1}" >>
BodyZero == << "plain", "0" >>
\* JavaScript truthiness of a body
BodyTruthy(b) == b \notin {Absent, Undef, BodyZero}
\* JSON.stringify(body) of a plain body: the JSON text
JsonStringify(b) == << "JSON", b[2] >>
\* a File, and the FormData upload() builds around files: the field name it
\* appends them under
FileA == << "File", "a" >>
NewFormData(fieldName) == << "FormData", fieldName >>

\* HTTP methods
GET == << "GET" >>
POST == << "POST" >>
PUT == << "PUT" >>
PATCH == << "PATCH" >>
DELETE == << "DELETE" >>

\* HeadersInit: a plain object or a Headers instance, each with its name/value
\* pairs; fetch reads header names without regard to case
HeadersObject(pairs) == << "object", pairs >>
HeadersInstance(pairs) == << "Headers", pairs >>
\* the own enumerable properties an object spread copies: those of a plain
\* object; a Headers instance has none, undefined has none
OwnProps(h) == IF h \in {Absent, Undef} THEN {} ELSE IF h[1] = "object" THEN h[2] ELSE {}
\* { ...a, ...b } on property sets: a key of b replaces the same key of a
Spread(a, b) == { p \in a : \A q \in b : q[1] # p[1] } \cup b
\* delete h[name]
Delete(h, name) == { p \in h : p[1] # name }
ContentTypeJson == << "Content-Type", "application/json" >>

\* JavaScript truthiness of an optional string
Truthy(s) == s # Absent /\ s # Undef /\ s # << >>

Range(s) == { s[i] : i \in DOMAIN s }
StartsWith(s, p) == Len(s) >= Len(p) /\ SubSeq(s, 1, Len(p)) = p
EndsWith(s, p) == Len(s) >= Len(p) /\ SubSeq(s, Len(s) - Len(p) + 1, Len(s)) = p

\* FetchState: data e is the parsed body of the response to execution e, error e
\* is the error execution e caught, 0 is null
IdleState == [data |-> 0, error |-> 0, isLoading |-> FALSE]

\* UseSmartFetchOptions: the instance options the model draws from
Options(u, b, a, d) ==
    [url |-> u, method |-> Absent, headers |-> Absent, body |-> b,
     autoFetch |-> a, debounce |-> d]
OptionSet ==
    { Options(UrlA, Absent, TRUE, 300),    \* auto-fetching, debounced
      Options(UrlB, Form1, TRUE, 300),     \* another URL, a FormData body
      Options(UrlB, Form2, TRUE, 300),     \* the same with another FormData
      Options(Absent, Absent, TRUE, 0),    \* auto-fetch asked for without a URL
      Options(UrlA, Absent, FALSE, 0) }    \* manual only

\* execute() called with no options: options = {}
NoOptions == [url |-> Absent, method |-> Absent, headers |-> Absent, body |-> Absent]

\* the options a caller passes to execute()
OverrideSet ==
    { [NoOptions EXCEPT !.url = u] : u \in {Absent, UrlAbs} }

\* SmartFetchConfig: the configurations the provider passes
Config(b, a, cb, ic) ==
    [baseUrl |-> b, headers |-> Absent, autoFetch |-> a, onSuccess |-> cb, onError |-> cb,
     reqI |-> ic, respI |-> ic]
ConfigSet ==
    { Config(Absent, FALSE, FALSE, FALSE),   \* no provider: the empty default
      Config(BaseUrl, TRUE, TRUE, FALSE),    \* base URL, global auto-fetch, callbacks
      Config(BaseUrl, FALSE, TRUE, TRUE) }   \* base URL, callbacks, interceptors

\* what onSuccess does when it is invoked, if it is configured
SuccessOutcomes(c) == IF c.onSuccess THEN {"return", "throw", "throwNull"} ELSE {"return"}
\* what onError does if it is configured: whatever it throws leaves the catch
\* block the same way
ErrorOutcomes(c) == IF c.onError THEN {"return", "throw"} ELSE {"return"}

(***************************************************************************)
(* Pure helpers of execute() and of the auto-fetch effect.                 *)
(***************************************************************************)
\* { ...optionsRef.current, ...options }: a key of options wins whenever it is present
Merge(ref, o) ==
    [url |-> IF o.url # Absent THEN o.url ELSE ref.url,
     method |-> IF o.method # Absent THEN o.method ELSE ref.method,
     headers |-> IF o.headers # Absent THEN o.headers ELSE ref.headers,
     body |-> IF o.body # Absent THEN o.body ELSE ref.body]

\* let { method = 'GET', headers = {} } = mergedOptions: a default stands in
\* for a key that is missing or undefined
MethodOf(merged) == IF merged.method \in {Absent, Undef} THEN GET ELSE merged.method
HeadersOf(merged) ==
    IF merged.headers \in {Absent, Undef} THEN HeadersObject({}) ELSE merged.headers

\* fetchOptions as execute() builds them before the request interceptor:
\* method, headers and body (Absent: no body key)
FetchOptions(cfg, merged) ==
    LET method == MethodOf(merged)
        headers == HeadersOf(merged)
        body == merged.body
        defaults == Spread(Spread({ContentTypeJson}, OwnProps(cfg.headers)),
                           OwnProps(headers))
        h == Delete(Spread(OwnProps(cfg.headers), OwnProps(headers)), "Content-Type")
    IN  IF BodyTruthy(body)
        THEN IF IsFormData(body)
             THEN [method |-> method, headers |-> h, body |-> body]
             ELSE IF method # GET
             THEN [method |-> method, headers |-> defaults, body |-> JsonStringify(body)]
             ELSE [method |-> method, headers |-> defaults, body |-> Absent]
        ELSE [method |-> method, headers |-> defaults, body |-> Absent]

\* the URL execute() requests for the merged url under config.baseUrl
ResolveUrl(baseUrl, url) ==
    IF Truthy(baseUrl) /\ Truthy(url) /\ ~StartsWith(url, << "h", "t", "t", "p" >>)
    THEN LET base == IF EndsWith(baseUrl, << "/" >>)
                     THEN SubSeq(baseUrl, 1, Len(baseUrl) - 1) ELSE baseUrl
             path == IF StartsWith(url, << "/" >>) THEN url ELSE << "/" >> \o url
         IN  base \o path
    ELSE url

\* JSON.stringify(initialOptions): undefined members are left out, a FormData
\* serializes as {} whatever it holds
Stringify(o) ==
    << IF o.url \in {Absent, Undef} THEN << "omitted" >> ELSE o.url,
       IF o.method \in {Absent, Undef} THEN << "omitted" >> ELSE o.method,
       IF o.headers \in {Absent, Undef} THEN << "omitted" >>
       ELSE << "object", OwnProps(o.headers) >>,
       IF o.body \in {Absent, Undef} THEN << "omitted" >>
       ELSE IF IsFormData(o.body) THEN << "{", "}" >> ELSE o.body,
       o.autoFetch, o.debounce >>

\* the initial isLoading of useState
InitialLoading(o, c) ==
    (o.autoFetch \/ c.autoFetch) /\ (Truthy(o.url) \/ Truthy(c.baseUrl))

\* the auto-fetch effect arms a timer
Arms(o, c) == (o.autoFetch \/ c.autoFetch) /\ Truthy(o.url)

\* the dependency list of the auto-fetch effect changed between two renders;
\* execute is rebuilt exactly when the config object is a new one
DepsChanged(oldProps, newProps, oldCfg, newCfg, newExecute) ==
    \/ Stringify(newProps) # Stringify(oldProps)
    \/ newExecute
    \/ newCfg.autoFetch # oldCfg.autoFetch

\* a cleanup that forgets to clear the timer
ClearTimeoutForgotten(ts, id) == ts

\* clearTimeout(timeoutId) in the effect's cleanup
ClearTimeout(ts, id) == { t \in ts : t.id # id }

\* an abort() that was left out
AbortForgotten(ab, ref) == ab

\* abortControllerRef.current.abort(), when the ref holds a controller
Abort(ab, ref) == IF ref # 0 THEN ab \cup {ref} ELSE ab

(***************************************************************************)
(* Executions.                                                             *)
(***************************************************************************)
Ids == 1 .. Len(execs)

\* the execution execute() starts once a URL resolved, suspended at its first await
\* an execution that calls fetch without awaiting the request interceptor
NewExecUnawaited(cfg) ==
    [pc |-> "fetch", cfg |-> cfg, signal |-> abortControllerRef',
     orig |-> TRUE, ok |-> FALSE]

NewExec(cfg) ==
    [pc |-> IF cfg.reqI THEN "reqI" ELSE "fetch",
     cfg |-> cfg,      \* the config its closure captured
     signal |-> abortControllerRef',   \* fetchOptions.signal: the controller it belongs to
     orig |-> TRUE,    \* the response in hand is the one fetch returned
     ok |-> FALSE]     \* response.ok of the response in hand

\* an execution that returned holds no closure and no response any more
Done(x) == [pc |-> "done"]

\* a transition to Loading that starts from a fresh state
LoadingStateFresh(prev) == [data |-> 0, error |-> 0, isLoading |-> TRUE]

\* setState(prev => ({ ...prev, isLoading: true, error: null }))
LoadingState(prev) == [prev EXCEPT !.isLoading = TRUE, !.error = 0]

SuccessState(e) == [data |-> e, error |-> 0, isLoading |-> FALSE]
FailureState(e) == [data |-> 0, error |-> e, isLoading |-> FALSE]

\* setState on a mounted component; React drops updates of an unmounted one
SetState(s) == state' = IF mounted THEN s ELSE state

\* x awaits a promise that aborting its signal rejects with an AbortError:
\* fetch, or json() of the response fetch returned
Cancels(x) == x.pc = "fetch" \/ (x.pc = "json" /\ x.orig)

\* the execution that abort() on the controller in ref makes return null, 0 if none
Swept(xs, ab, ref) == IF ref # 0 /\ ref \notin ab /\ Cancels(xs[ref]) THEN ref ELSE 0

\* the executions after abort() on the controller in ref
AbortExecs(xs, ab, ref) ==
    IF Swept(xs, ab, ref) # 0 THEN [xs EXCEPT ![ref] = Done(@)] ELSE xs

\* what a step did: step is render, unmount, start, nourl, await or return;
\* for a return: what the catch block caught, the terminal setState calls in
\* order, the onSuccess and onError invocations, and how the promise settled;
\* swept is the execution the step's abort() made return null, 0 if none;
\* for a start: the URL requested, the options execute() was called with, the
\* merged options, the fetchOptions built from them and who called;
\* cfg is the config the closure of the execution captured; a step that is
\* not about them leaves these None
Event(e, step, caught, commits, succ, err, result, swept) ==
    [exec |-> e, step |-> step, caught |-> caught, commits |-> commits,
     succ |-> succ, err |-> err, result |-> result, swept |-> swept,
     url |-> None, call |-> None, opts |-> None, request |-> None, auto |-> FALSE,
     cfg |-> None]
Lifecycle(step, swept) == Event(0, step, "none", << >>, 0, 0, "none", swept)
Await(e) == Event(e, "await", "none", << >>, 0, 0, "pending", 0)
Started(e, cfg, url, o, merged, auto, swept) ==
    [Event(e, "start", "none", << >>, 0, 0, "pending", swept)
        EXCEPT !.url = url, !.call = o, !.opts = merged,
               !.request = FetchOptions(cfg, merged), !.auto = auto, !.cfg = cfg]
Returned(x, e, caught, commits, succ, err, result) ==
    [Event(e, "return", caught, commits, succ, err, result, 0) EXCEPT !.cfg = x.cfg]

\* the catch block: x caught `kind` after the commits and onSuccess calls
\* `before`, `succ`; oe is what onError does if it is invoked.  error.name of
\* a null or undefined error throws inside the catch block.
Catch(e, x, kind, before, succ, oe) ==
    IF kind = "null" THEN Returned(x, e, kind, before, succ, 0, "rejected")
    ELSE IF kind = "abort" THEN Returned(x, e, kind, before, succ, 0, "null")
    ELSE Returned(x, e, kind, Append(before, "failure"), succ,
                  IF x.cfg.onError THEN 1 ELSE 0,
                  IF x.cfg.onError /\ oe # "return" THEN "rejected" ELSE "null")

\* the catch block commits the error it caught
CatchCommits(kind) == kind \notin {"null", "abort"}

\* x leaves the try block by throwing `kind` before any commit
Throw(e, x, kind) ==
    /\ execs' = [execs EXCEPT ![e] = Done(x)]
    /\ IF CatchCommits(kind)
       THEN /\ \E oe \in ErrorOutcomes(x.cfg) : event' = Catch(e, x, kind, << >>, 0, oe)
            /\ SetState(FailureState(e))
       ELSE /\ event' = Catch(e, x, kind, << >>, 0, "return")
            /\ state' = state

\* response.json() resolved: commit, onSuccess, return data; what onSuccess
\* throws is caught by the same catch block
Succeed(e, x) ==
    LET succ == IF x.cfg.onSuccess THEN 1 ELSE 0
    IN  /\ execs' = [execs EXCEPT ![e] = Done(x)]
        /\ \E os \in SuccessOutcomes(x.cfg) :
              CASE os = "return" ->
                     /\ event' = Returned(x, e, "none", << "success" >>, succ, 0, "data")
                     /\ SetState(SuccessState(e))
                [] os = "throw" ->
                     /\ \E oe \in ErrorOutcomes(x.cfg) :
                           event' = Catch(e, x, "error", << "success" >>, succ, oe)
                     /\ SetState(FailureState(e))
                [] os = "throwNull" ->
                     /\ event' = Catch(e, x, "null", << "success" >>, succ, "return")
                     /\ SetState(SuccessState(e))

\* fetch(url, fetchOptions) is called: with a signal that is already aborted
\* it rejects at once
CallFetch(e, x) ==
    IF x.signal \in aborted THEN Throw(e, x, "abort")
    ELSE /\ execs' = [execs EXCEPT ![e] = [x EXCEPT !.pc = "fetch"]]
         /\ event' = Await(e)
         /\ state' = state

\* the response in hand has gone through the response interceptor, if any:
\* the ok check, then response.json(), which rejects at once when the body
\* is the one an aborted fetch returned
AfterResponse(e, x) ==
    IF ~x.ok THEN Throw(e, x, "http")
    ELSE IF x.orig /\ x.signal \in aborted THEN Throw(e, x, "abort")
    ELSE /\ execs' = [execs EXCEPT ![e] = [x EXCEPT !.pc = "json"]]
         /\ event' = Await(e)
         /\ state' = state

\* an execute() that goes on to abort the previous request although no URL resolved
FailFastAborting(cfg, o) ==
    /\ event' = [Event(0, "nourl", "none", << >>, 0, 0, "null", 0)
                    EXCEPT !.call = o, !.cfg = cfg]
    /\ aborted' = Abort(aborted, abortControllerRef)
    /\ execs' = AbortExecs(execs, aborted, abortControllerRef)
    /\ UNCHANGED << state, abortControllerRef >>

\* if (!url) { console.error(...); return null }
FailFast(cfg, o) ==
    /\ event' = [Event(0, "nourl", "none", << >>, 0, 0, "null", 0)
                    EXCEPT !.call = o, !.cfg = cfg]
    /\ UNCHANGED << state, abortControllerRef, aborted, execs >>

\* the body of execute(options) in the closure that captured cfg
Execute(cfg, o, auto) ==
    LET merged == Merge(optionsRef, o)
        url == ResolveUrl(cfg.baseUrl, merged.url)
    IN  IF ~Truthy(url)
        THEN FailFast(cfg, o)
        ELSE /\ Len(execs) < MaxExec
             /\ aborted' = Abort(aborted, abortControllerRef)
             /\ abortControllerRef' = Len(execs) + 1
             /\ SetState(LoadingState(state))
             /\ execs' = Append(AbortExecs(execs, aborted, abortControllerRef), NewExec(cfg))
             /\ event' = Started(Len(execs) + 1, cfg, url, o, merged, auto,
                                 Swept(execs, aborted, abortControllerRef))

\* the object useSmartFetch returns: FetchState and the operations
UseSmartFetchResult ==
    [data |-> state.data, error |-> state.error, isLoading |-> state.isLoading,
     execute |-> "function", get |-> "function", post |-> "function",
     put |-> "function", patch |-> "function", remove |-> "function",
     upload |-> "function"]

(***************************************************************************)
(* The state after the first render and its effects.                       *)
(***************************************************************************)
Init ==
    /\ mounted = TRUE
    /\ config \in ConfigSet
    /\ initialOptions \in OptionSet
    /\ optionsRef = initialOptions
    /\ state = [data |-> 0, error |-> 0, isLoading |-> InitialLoading(initialOptions, config)]
    /\ abortControllerRef = 0
    /\ aborted = {}
    /\ execs = << >>
    /\ timers = IF Arms(initialOptions, config) THEN {[id |-> 1, cfg |-> config]} ELSE {}
    /\ effectTimer = IF Arms(initialOptions, config) THEN 1 ELSE 0
    /\ nextTimer = IF Arms(initialOptions, config) THEN 2 ELSE 1
    /\ renders = 0
    /\ event = Lifecycle("render", 0)

(***************************************************************************)
(* Renders.  A re-render stores the new initialOptions in optionsRef; when *)
(* a dependency of the auto-fetch effect changed, the previous cleanup runs*)
(* (clearTimeout, abort) and the effect runs again.                        *)
(***************************************************************************)
\* the cleanup the previous run of the auto-fetch effect returned
Cleanup ==
    /\ aborted' = Abort(aborted, abortControllerRef)
    /\ execs' = AbortExecs(execs, aborted, abortControllerRef)

Render(newProps, newCfg, newExecute) ==
    /\ mounted
    /\ renders < MaxRenders
    /\ renders' = renders + 1
    /\ initialOptions' = newProps
    /\ config' = newCfg
    /\ optionsRef' = newProps
    /\ IF DepsChanged(initialOptions, newProps, config, newCfg, newExecute)
       THEN /\ Cleanup
            /\ event' = Lifecycle("render", Swept(execs, aborted, abortControllerRef))
            /\ IF Arms(newProps, newCfg)
               THEN /\ timers' = ClearTimeout(timers, effectTimer)
                                     \cup {[id |-> nextTimer, cfg |-> newCfg]}
                    /\ effectTimer' = nextTimer
                    /\ nextTimer' = nextTimer + 1
               ELSE /\ timers' = ClearTimeout(timers, effectTimer)
                    /\ effectTimer' = 0
                    /\ nextTimer' = nextTimer
       ELSE /\ event' = Lifecycle("render", 0)
            /\ UNCHANGED << aborted, execs, timers, effectTimer, nextTimer >>
    /\ UNCHANGED << mounted, state, abortControllerRef >>

\* the owning component re-renders with new initialOptions
RenderOptions(newProps) == Render(newProps, config, FALSE)

\* the provider re-renders with a new config object (its value may be the same)
RenderConfig(newCfg) == Render(initialOptions, newCfg, TRUE)

\* the owning component unmounts: the cleanup of the latest effect runs
Unmount ==
    /\ mounted
    /\ mounted' = FALSE
    /\ timers' = ClearTimeout(timers, effectTimer)
    /\ effectTimer' = 0
    /\ Cleanup
    /\ event' = Lifecycle("unmount", Swept(execs, aborted, abortControllerRef))
    /\ UNCHANGED << config, initialOptions, optionsRef, state, abortControllerRef,
                    nextTimer, renders >>

(***************************************************************************)
(* Starting an execution.                                                  *)
(***************************************************************************)
\* the debounce timer fires and calls execute()
TimerFire(t) ==
    /\ t \in timers
    /\ timers' = timers \ {t}
    /\ Execute(t.cfg, NoOptions, TRUE)
    /\ UNCHANGED << mounted, config, initialOptions, optionsRef, effectTimer, nextTimer, renders >>

\* the component calls execute(options) of the latest render
ManualExecute(o) ==
    /\ mounted
    /\ Execute(config, o, FALSE)
    /\ UNCHANGED << mounted, config, initialOptions, optionsRef, timers, effectTimer,
                    nextTimer, renders >>

(***************************************************************************)
(* The awaits of an execution settle.                                      *)
(***************************************************************************)
Frame == UNCHANGED << mounted, config, initialOptions, optionsRef, abortControllerRef,
                      aborted, timers,
                      effectTimer, nextTimer, renders >>

\* await config.interceptors.request(fetchOptions) settles
ReqISettle(e, out) ==
    /\ e \in Ids
    /\ execs[e].pc = "reqI"
    /\ CASE out = "return" -> CallFetch(e, execs[e])
         [] out = "throw" -> Throw(e, execs[e], "error")
         [] out = "throwNull" -> Throw(e, execs[e], "null")
    /\ Frame

\* await fetch(url, fetchOptions) settles
FetchSettle(e, out) ==
    /\ e \in Ids
    /\ execs[e].pc = "fetch"
    /\ CASE out = "reject" -> Throw(e, execs[e], "network")
         [] out \in {"ok", "notOk"} ->
              LET x == [execs[e] EXCEPT !.ok = (out = "ok")]
              IN  IF x.cfg.respI
                  THEN /\ execs' = [execs EXCEPT ![e] = [x EXCEPT !.pc = "respI"]]
                       /\ event' = Await(e)
                       /\ state' = state
                  ELSE AfterResponse(e, x)
    /\ Frame

\* await config.interceptors.response(response) settles
RespISettle(e, out) ==
    /\ e \in Ids
    /\ execs[e].pc = "respI"
    /\ CASE out = "return" -> AfterResponse(e, execs[e])
         [] out \in {"replaceOk", "replaceBad"} ->
              AfterResponse(e, [execs[e] EXCEPT !.orig = FALSE,
                                                !.ok = (out = "replaceOk")])
         [] out = "throw" -> Throw(e, execs[e], "error")
         [] out = "throwNull" -> Throw(e, execs[e], "null")
    /\ Frame

\* await response.json() settles
JsonSettle(e, out) ==
    /\ e \in Ids
    /\ execs[e].pc = "json"
    /\ CASE out = "data" -> Succeed(e, execs[e])
         [] out = "syntaxError" -> Throw(e, execs[e], "parse")
    /\ Frame

Next ==
    \/ \E o \in OptionSet : RenderOptions(o)
    \/ \E c \in ConfigSet : RenderConfig(c)
    \/ Unmount
    \/ \E t \in timers : TimerFire(t)
    \/ \E o \in OverrideSet : ManualExecute(o)
    \/ \E e \in 1 .. MaxExec :
          \/ \E out \in {"return", "throw", "throwNull"} : ReqISettle(e, out)
          \/ \E out \in {"ok", "notOk", "reject"} : FetchSettle(e, out)
          \/ \E out \in {"return", "replaceOk", "replaceBad", "throw", "throwNull"} :
                RespISettle(e, out)
          \/ \E out \in {"data", "syntaxError"} : JsonSettle(e, out)

Spec == Init /\ [][Next]_vars

(***************************************************************************)
(* The request an execution builds.  The verbs of the hook result call     *)
(* execute() with the options their arguments make up; an optional         *)
(* argument that is left out is undefined.  This specification mounts      *)
(* instances without auto-fetch under configurations with base URLs and    *)
(* global headers, and calls execute() and the verbs with URLs, methods,   *)
(* headers and bodies of every shape; the requests stay pending.           *)
(***************************************************************************)
UrlSlashes == << "/", "/", "a" >>
UrlHttpd == << "h", "t", "t", "p", "d" >>
UrlFtp == << "f", "t", "p", ":", "/", "/", "x" >>
BaseBare == << "h", "t", "t", "p", ":", "/", "/", "h" >>
BaseSlashes == << "h", "t", "t", "p", ":", "/", "/", "h", "/", "/" >>

RequestUrls == { UrlA, UrlB, UrlAbs, UrlSlashes, UrlHttpd, UrlFtp }

\* headers of the provider, of the instance and of a call
GlobalHeaders == HeadersObject({ << "X-G", "g" >>, << "X-Both", "g" >> })
GlobalJson == HeadersObject({ ContentTypeJson })
InstanceHeaders == HeadersObject({ << "X-I", "i" >> })
CallHeaders == HeadersObject({ << "X-C", "c" >>, << "X-Both", "c" >> })
CallLowerJson == HeadersObject({ << "content-type", "application/json" >> })
CallInstance == HeadersInstance({ << "X-C", "c" >> })

RequestConfigSet ==
    { Config(Absent, FALSE, FALSE, FALSE),
      [Config(BaseUrl, FALSE, FALSE, FALSE) EXCEPT !.headers = GlobalHeaders],
      [Config(BaseBare, FALSE, FALSE, FALSE) EXCEPT !.headers = GlobalJson],
      Config(BaseSlashes, FALSE, FALSE, FALSE) }

RequestOptionSet ==
    { [Options(u, b, FALSE, 0) EXCEPT !.method = m, !.headers = h] :
         u \in {Absent, UrlB}, b \in {Absent, Form1, BodyObj},
         m \in {Absent, POST}, h \in {Absent, InstanceHeaders} }

\* the options of direct execute() calls
CallSet ==
    { NoOptions,
      [NoOptions EXCEPT !.url = UrlA, !.headers = CallHeaders],
      [NoOptions EXCEPT !.url = UrlA, !.method = PUT, !.body = BodyZero],
      [NoOptions EXCEPT !.method = POST, !.body = Form2, !.headers = CallInstance] }

RequestInit ==
    /\ mounted = TRUE
    /\ config \in RequestConfigSet
    /\ initialOptions \in RequestOptionSet
    /\ optionsRef = initialOptions
    /\ state = [data |-> 0, error |-> 0, isLoading |-> InitialLoading(initialOptions, config)]
    /\ abortControllerRef = 0
    /\ aborted = {}
    /\ execs = << >>
    /\ timers = {}
    /\ effectTimer = 0
    /\ nextTimer = 1
    /\ renders = 0
    /\ event = Lifecycle("render", 0)

\* what a verb of the latest render leaves alone
VerbFrame == UNCHANGED << mounted, config, initialOptions, optionsRef, timers, effectTimer,
                          nextTimer, renders >>

\* get(url, headers?)
Get(url, headers) ==
    /\ mounted
    /\ Execute(config, [url |-> url, method |-> GET, headers |-> headers,
                        body |-> Absent], FALSE)
    /\ VerbFrame

\* post(url, body, headers?)
Post(url, body, headers) ==
    /\ mounted
    /\ Execute(config, [url |-> url, method |-> POST, headers |-> headers,
                        body |-> body], FALSE)
    /\ VerbFrame

\* put(url, body, headers?)
Put(url, body, headers) ==
    /\ mounted
    /\ Execute(config, [url |-> url, method |-> PUT, headers |-> headers,
                        body |-> body], FALSE)
    /\ VerbFrame

\* patch(url, body, headers?)
Patch(url, body, headers) ==
    /\ mounted
    /\ Execute(config, [url |-> url, method |-> PATCH, headers |-> headers,
                        body |-> body], FALSE)
    /\ VerbFrame

\* remove(url, headers?)
Remove(url, headers) ==
    /\ mounted
    /\ Execute(config, [url |-> url, method |-> DELETE, headers |-> headers,
                        body |-> Absent], FALSE)
    /\ VerbFrame

\* upload(url, fileOrFiles, fieldName = 'file', headers = {}, method = 'POST')
Upload(url, fileOrFiles, fieldName, headers, method) ==
    /\ mounted
    /\ Execute(config,
               [url |-> url,
                method |-> IF method = Undef THEN POST ELSE method,
                headers |-> IF headers = Undef THEN HeadersObject({}) ELSE headers,
                body |-> IF IsFormData(fileOrFiles) THEN fileOrFiles
                         ELSE NewFormData(IF fieldName = Undef THEN "file"
                                          ELSE fieldName[1])],
               FALSE)
    /\ VerbFrame

RequestNext ==
    \/ \E o \in CallSet : ManualExecute(o)
    \/ \E u \in RequestUrls, h \in {Undef, CallHeaders} : Get(u, h)
    \/ \E b \in {BodyObj, BodyZero, Form1}, h \in {Undef, CallLowerJson} : Post(UrlA, b, h)
    \/ \E u \in {UrlA, UrlB} : Put(u, BodyObj, Undef)
    \/ \E b \in {BodyObj, Form1} : Patch(UrlB, b, CallHeaders)
    \/ \E u \in {UrlA, UrlAbs}, h \in {Undef, CallHeaders} : Remove(u, h)
    \/ \E f \in {Form1, FileA}, n \in {Undef, << "avatar" >>},
          h \in {Undef, CallLowerJson, CallInstance}, m \in {Undef, PUT} :
             Upload(UrlA, f, n, h, m)

RequestSpec == RequestInit /\ [][RequestNext]_vars

(***************************************************************************)
(* Properties.  A return event describes the step in which an execution    *)
(* left execute(): the sets aborted and execs and the flag mounted are the *)
(* same before and after that step.                                        *)
(***************************************************************************)
Returns == event.step = "return"
\* the execution of the event ran while abort() had been called on its controller
Cancelled == event.exec \in aborted
\* the execution of the event got as far as the commit of the parsed data
Parsed == event.commits # << >> /\ Head(event.commits) = "success"

\* C1: once a newer execution has been initiated, no earlier execution calls
\* setState again: on a mounted instance every terminal commit is made by
\* the most recently initiated execution.
C1_OnlyLatestCommits ==
    (mounted /\ event.commits # << >>) => event.exec = Len(execs)

\* C2: an execution whose request was cancelled commits nothing, invokes
\* neither onSuccess nor onError, and its promise resolves with null.
C2_CancelledIsSilent ==
    (Returns /\ Cancelled) =>
        /\ event.commits = << >>
        /\ event.succ = 0 /\ event.err = 0
        /\ event.result = "null"

\* C3: an execution that is not cancelled and fails with a non-success
\* status, a body that does not parse, or a rejected request commits
\* {data: null, error, isLoading: false}, invokes onError exactly once when it
\* is configured, and resolves with null.
C3_FailureCommits ==
    (Returns /\ ~Cancelled /\ event.caught \in {"http", "parse", "network"}) =>
        /\ event.commits = << "failure" >>
        /\ mounted => state = FailureState(event.exec)
        /\ event.err = (IF event.cfg.onError THEN 1 ELSE 0)
        /\ event.succ = 0
        /\ event.result = "null"

\* C4: an execution that is not cancelled and whose body parsed commits
\* {data, error: null, isLoading: false} as its only commit, invokes onSuccess
\* exactly once when it is configured, does not invoke onError, and resolves
\* with the data.
C4_SuccessCommits ==
    (Returns /\ ~Cancelled /\ Parsed) =>
        /\ event.commits = << "success" >>
        /\ mounted => state = SuccessState(event.exec)
        /\ event.succ = (IF event.cfg.onSuccess THEN 1 ELSE 0)
        /\ event.err = 0
        /\ event.result = "data"

\* C5: the promise execute() returns never rejects: it resolves with the
\* data or with null, whatever the network call, the interceptors and the
\* callbacks do.
C5_NeverRejects ==
    Returns => event.result \in {"data", "null"}

\* auto-fetch is enabled by the instance options or by the global config
AutoEnabled == initialOptions.autoFetch \/ config.autoFetch
\* execute() of the latest render, called with no options, would find a URL
Resolvable == Truthy(ResolveUrl(config.baseUrl, optionsRef.url))
\* execution e has not returned and its controller has not been aborted
InFlight(e) == execs[e].pc # "done" /\ e \notin aborted
AllReturned == \A e \in Ids : execs[e].pc = "done"

\* C6: the initial FetchState is Loading exactly when auto-fetch is enabled
\* and execute() would find a URL for the instance; otherwise it is Idle.
C6_InitialState ==
    (renders = 0 /\ execs = << >> /\ event.step = "render") =>
        state = [IdleState EXCEPT !.isLoading = AutoEnabled /\ Resolvable]

\* C7: whenever a mounted instance shows isLoading, a debounce timer is
\* armed or an execution that has not been cancelled is in flight.
C7_LoadingMeansPending ==
    (mounted /\ state.isLoading) => (timers # {} \/ \E e \in Ids : InFlight(e))

\* C8: debounced auto-fetch.  At most one timer is armed, and it is the one of
\* the latest run of the effect: every option change that arrives while a
\* timer is armed leaves at most one armed timer, so at most one request
\* follows the whole sequence.  The request a timer starts is built from the
\* options and the config of the latest render, and leaves no timer armed.
C8_DebouncedAutoFetch ==
    /\ Cardinality(timers) <= 1
    /\ \A t \in timers : mounted /\ t.id = effectTimer
    /\ (event.step = "start" /\ event.auto) =>
          /\ timers = {}
          /\ event.cfg = config
          /\ event.opts = Merge(initialOptions, NoOptions)
          /\ event.url = ResolveUrl(config.baseUrl, initialOptions.url)

\* two re-renders arrived while the timer was armed (one that re-armed it and
\* one that only replaced the FormData of the options), and then the timer
\* started the first execution, with the FormData of the latest render
C8_Witness ==
    /\ event.step = "start" /\ event.auto /\ event.exec = 1
    /\ renders >= 2 /\ nextTimer = 3
    /\ event.opts.body = Form2

\* C9: with auto-fetch enabled and a URL in the options of a mounted
\* instance, once the timer has fired and every execution has settled, an
\* execution was started and the state has left Loading.
C9_AutoFetchSettles ==
    (mounted /\ Arms(initialOptions, config) /\ timers = {} /\ AllReturned) =>
        (execs # << >> /\ ~state.isLoading)

\* C10: teardown clears the armed timer and cancels the outstanding token;
\* after it no execution starts, commits or invokes onSuccess or onError.
C10_TeardownIsFinal ==
    ~mounted =>
        /\ timers = {}
        /\ abortControllerRef # 0 => abortControllerRef \in aborted
        /\ event.step # "start"
        /\ event.commits = << >>
        /\ event.succ = 0 /\ event.err = 0

\* the step that leads to the primed state is a call of execute() for which no
\* URL resolves
NoUrlResolves ==
    /\ event'.step \in {"start", "nourl"}
    /\ ~Truthy(ResolveUrl(event'.cfg.baseUrl, Merge(optionsRef, event'.call).url))

\* C12: an execute() for which no URL resolves returns null and changes
\* nothing else: FetchState is not modified, the current controller is neither
\* aborted nor replaced, no execution is started, ended or cancelled (so no
\* network call is made), and neither onSuccess nor onError is invoked.
C12_NoUrlFailFast ==
    [][NoUrlResolves =>
          /\ event'.step = "nourl" /\ event'.result = "null"
          /\ UNCHANGED << state, abortControllerRef, aborted, execs >>
          /\ event'.commits = << >> /\ event'.succ = 0 /\ event'.err = 0]_vars

\* execute() found no URL while an earlier request was in flight and the
\* instance showed Loading: the request is still in flight
C12_Witness ==
    /\ event.step = "nourl"
    /\ state.isLoading
    /\ abortControllerRef # 0 /\ InFlight(abortControllerRef)

\* C15: the hook result exposes a mutate operation (which replaces data
\* without a request and, asked to, re-fetches).
C15_ExposesMutate ==
    "mutate" \in DOMAIN UseSmartFetchResult

\* the awaits of an execution in the order the claim gives them
NextAwaits(x) ==
    CASE x.pc = "reqI" -> {"reqI", "fetch", "done"}
      [] x.pc = "fetch" -> {"fetch", IF x.cfg.respI THEN "respI" ELSE "json", "done"}
      [] x.pc = "respI" -> {"respI", "json", "done"}
      [] x.pc = "json" -> {"json", "done"}
      [] x.pc = "done" -> {"done"}

\* C16: an execution goes through its steps in order: the request
\* interceptor (when configured) settles before the network call starts, the
\* response interceptor (when configured) settles before the ok check and the
\* body read, the success commit follows the body read, and a callback is
\* invoked only after the commit it belongs to: onSuccess after the success
\* commit, onError after the failure commit, which is then the last commit.
C16_StepOrder ==
    [][/\ \A e \in 1 .. Len(execs') :
             IF e \in Ids
             THEN execs'[e].pc \in NextAwaits(execs[e])
             ELSE execs'[e].pc = (IF execs'[e].cfg.reqI THEN "reqI" ELSE "fetch")
       /\ event'.step = "return" =>
             /\ "success" \in Range(event'.commits) =>
                    /\ execs[event'.exec].pc = "json"
                    /\ Head(event'.commits) = "success"
             /\ event'.succ = 1 =>
                    event'.commits # << >> /\ Head(event'.commits) = "success"
             /\ event'.err = 1 =>
                    /\ event'.commits # << >>
                    /\ event'.commits[Len(event'.commits)] = "failure"]_vars

\* an execution under both interceptors went through every step: it
\* committed the parsed data and invoked onSuccess
C16_Witness ==
    /\ Returns /\ Parsed
    /\ event.cfg.reqI /\ event.cfg.respI
    /\ event.succ = 1 /\ event.result = "data"

\* C18: a re-render that leaves the serialized instance options and the
\* global auto-fetch flag unchanged does not re-evaluate the auto-fetch
\* effect: it clears no timer, arms none, and cancels no request.
C18_EffectDeps ==
    [][(/\ renders' = renders + 1
        /\ Stringify(initialOptions') = Stringify(initialOptions)
        /\ config'.autoFetch = config.autoFetch)
       => UNCHANGED << timers, effectTimer, nextTimer, aborted, execs >>]_vars

\* C19: every controller but the current one has been aborted, so at most
\* one execution holds a signal that is not aborted, and the signal of an
\* execution that has not returned is the one of the controller it created.
C19_SingleLiveToken ==
    /\ \A e \in Ids : e \notin aborted => e = abortControllerRef
    /\ \A e \in Ids : execs[e].pc # "done" => execs[e].signal = e
    /\ Cardinality({ e \in Ids : execs[e].pc # "done" /\ execs[e].signal \notin aborted }) <= 1

\* a second execute() cancelled the request of the first, which was in flight
C19_Witness ==
    /\ event.step = "start" /\ event.exec = 2 /\ event.swept = 1
    /\ 1 \in aborted /\ abortControllerRef = 2

\* C20: the start of an execution sets isLoading, clears error and keeps
\* data; data takes a new value only in a success commit, and goes back to
\* null only in a failure commit.
C20_LoadingKeepsData ==
    [][/\ (mounted /\ event'.step = "start") =>
             state' = [data |-> state.data, error |-> 0, isLoading |-> TRUE]
       /\ (state'.data # state.data /\ state'.data # 0) =>
             /\ event'.step = "return" /\ "success" \in Range(event'.commits)
             /\ state'.data = event'.exec
       /\ (state'.data # state.data /\ state'.data = 0) =>
             /\ event'.step = "return"
             /\ event'.commits[Len(event'.commits)] = "failure"]_vars

\* a new execution started while the data of an earlier success was shown
C20_Witness ==
    /\ event.step = "start" /\ event.exec = 2
    /\ state.data = 1 /\ state.isLoading /\ state.error = 0

(***************************************************************************)
(* Properties of the request an execution builds, stated of its start      *)
(* event under RequestSpec.                                                *)
(***************************************************************************)
Letters ==
    { "a", "b", "c", "d", "e", "f", "g", "h", "i", "j", "k", "l", "m",
      "n", "o", "p", "q", "r", "s", "t", "u", "v", "w", "x", "y", "z" }
\* p begins with a scheme: letters, then ://
HasScheme(p) ==
    \E i \in 2 .. Len(p) - 2 :
        /\ \A j \in 1 .. i - 1 : p[j] \in Letters
        /\ SubSeq(p, i, i + 2) = << ":", "/", "/" >>
RECURSIVE TrimTrailing(_)
TrimTrailing(b) ==
    IF b # << >> /\ b[Len(b)] = "/" THEN TrimTrailing(SubSeq(b, 1, Len(b) - 1)) ELSE b
RECURSIVE TrimLeading(_)
TrimLeading(p) ==
    IF p # << >> /\ p[1] = "/" THEN TrimLeading(Tail(p)) ELSE p
\* b followed by p with exactly one / between them
Joined(b, p) == TrimTrailing(b) \o << "/" >> \o TrimLeading(p)

\* C11: under a base URL b, the URL requested for a supplied URL p without
\* a scheme prefix is b, one /, p, whatever slashes b ends with and p begins
\* with; a supplied URL with a scheme prefix is requested as it is.
C11_UrlResolution ==
    (event.step = "start" /\ Truthy(event.cfg.baseUrl)) =>
        event.url = IF HasScheme(event.opts.url) THEN event.opts.url
                    ELSE Joined(event.cfg.baseUrl, event.opts.url)

IsPlainBody(b) == b \notin {Absent, Undef} /\ ~IsFormData(b)

\* C13: the request has no body when the method is GET; under any other
\* method a plain body is sent as its JSON text and a FormData body is sent
\* as the object it is.
C13_BodyRule ==
    event.step = "start" =>
        LET r == event.request
            b == event.opts.body
        IN  /\ r.method = GET => r.body = Absent
            /\ (r.method # GET /\ IsPlainBody(b)) => r.body = JsonStringify(b)
            /\ (r.method # GET /\ IsFormData(b)) => r.body = b

\* the name/value pairs of a HeadersInit, whatever object carries them
PairsOf(h) == IF h \in {Absent, Undef} THEN {} ELSE h[2]
\* header names are matched without regard to case
IsContentType(n) == n \in {"Content-Type", "content-type"}

\* C14: when the body is a FormData the headers of the request hold no JSON
\* Content-Type (not the default one, not one from the global config or the
\* caller), and every other header of the global config and of the call is
\* there, the call's value winning over the global one.
C14_FormDataHeaders ==
    (event.step = "start" /\ IsFormData(event.request.body)) =>
        LET global == PairsOf(event.cfg.headers)
            call == PairsOf(event.opts.headers)
            others == { p \in call : ~IsContentType(p[1]) } \cup
                      { p \in global : /\ ~IsContentType(p[1])
                                       /\ \A q \in call : q[1] # p[1] }
        IN  /\ \A p \in event.request.headers :
                  ~(IsContentType(p[1]) /\ p[2] = "application/json")
            /\ { p \in event.request.headers : ~IsContentType(p[1]) } = others

\* the caller supplied a value for an option
Supplied(v) == v \notin {Absent, Undef}
\* an option that is missing and one that is undefined are the same to execute()
Effective(v) == IF v = Undef THEN Absent ELSE v

\* C17: for url, method, headers and body an execution uses the value the
\* call supplied, and the value of the instance options when the call
\* supplied none, whether it was made through execute() or through a verb
\* whose optional arguments were left out.
C17_MergePrecedence ==
    event.step = "start" =>
        \A f \in {"url", "method", "headers", "body"} :
            Effective(event.opts[f]) =
                IF Supplied(event.call[f]) THEN event.call[f] ELSE Effective(optionsRef[f])

====
